---- MODULE Spec2Model ----
(***************************************************************************)
(* Model of ambassador/ir/irambassador.py: the IRAmbassador node, its      *)
(* constructor, its setup phase and its add_mappings phase.                *)
(*                                                                         *)
(* Python objects that are shared by reference (the probe dictionaries,    *)
(* the TLS blocks) live in `heap` and are named by string references, so   *)
(* that `self[key] = amod[key]` followed by `cur['prefix'] = ...` changes  *)
(* the one object both the node and the module point to.                   *)
(*                                                                         *)
(* A Python dict with optional keys is a function whose DOMAIN is the set  *)
(* of keys present.  A TLS block is a sequence of entries (a dict in       *)
(* insertion order).  The tri-state auth_enabled is one of the strings     *)
(* "None", "True", "False".                                                *)
(***************************************************************************)
EXTENDS Integers, Sequences, FiniteSets, TLC

VARIABLES
    pc,            \* orchestrator position: constructed, setup_done, setup_failed, mappings_done
    aconf,         \* Config Store: module name -> module resource
    heap,          \* reference -> dict object (probe bundles, TLS blocks)
    node,          \* the IRAmbassador resource
    tmod,          \* setup's local `tmod` as it stands after line 78
    tls_contexts,  \* the IR's TLS context registry: name -> context
    created,       \* IREnvoyTLS objects constructed by this node's setup, in order
    mappings       \* the IR's mapping registry, in order of add_mapping calls

vars == <<pc, aconf, heap, node, tmod, tls_contexts, created, mappings>>

(***************************************************************************)
(* Bounds of the explored inputs.                                          *)
(***************************************************************************)
MaxKeys == 2       \* most override-eligible keys the ambassador module defines
MaxEntries == 1    \* most entries of a TLS block as written by the user

(***************************************************************************)
(* Class constants.                                                        *)
(***************************************************************************)
default_liveness_probe ==
    [prefix |-> "/ambassador/v0/check_alive", rewrite |-> "/ambassador/v0/check_alive"]

default_readiness_probe ==
    [prefix |-> "/ambassador/v0/check_ready", rewrite |-> "/ambassador/v0/check_ready"]

default_diagnostics ==
    [prefix |-> "/ambassador/v0/", rewrite |-> "/ambassador/v0/"]

OverrideKeys ==
    <<"service_port", "admin_port", "diag_port",
      "liveness_probe", "readiness_probe", "auth_enabled",
      "use_proxy_proto", "use_remote_address", "diagnostics",
      "x_forwarded_proto_redirect">>

OverrideKeySet == {OverrideKeys[i] : i \in 1..Len(OverrideKeys)}

ProbeKeys == {"liveness_probe", "readiness_probe", "diagnostics"}

ProbeFields == {"prefix", "rewrite", "service"}

(***************************************************************************)
(* Python helpers.                                                         *)
(***************************************************************************)
\* d.get(k, dflt)
Get(d, k, dflt) == IF k \in DOMAIN d THEN d[k] ELSE dflt

\* `not cur.get(field, None)` for a string-valued field: absent or empty
FalsyField(cur, field) == field \notin DOMAIN cur \/ cur[field] = ""

\* `cur and cur.get("enabled", False)`
ProbeEnabled(cur) == DOMAIN cur # {} /\ Get(cur, "enabled", FALSE)

\* ctx_name.startswith('_')
StartsWithUnderscore(s) == Len(s) >= 1 /\ SubSeq(s, 1, 1) = "_"

\* index of key k in a TLS block, 0 when absent
RECURSIVE IndexOf(_, _, _)
IndexOf(blk, k, i) ==
    IF i > Len(blk) THEN 0
    ELSE IF blk[i].name = k THEN i
    ELSE IndexOf(blk, k, i + 1)

\* blk[k] = text  (a string value; an existing key keeps its position)
SetItem(blk, k, text) ==
    LET e == [name |-> k, value |-> [isdict |-> FALSE, location |-> {}, text |-> text]]
        i == IndexOf(blk, k, 1)
    IN  IF i = 0 THEN Append(blk, e) ELSE [blk EXCEPT ![i] = e]

(***************************************************************************)
(* Collaborators whose code is outside irambassador.py.                    *)
(***************************************************************************)
\* Config.get_module(name): the module as a set of at most one resource
get_module(conf, name) == IF name \in DOMAIN conf THEN {conf[name]} ELSE {}

\* Config.module_lookup(module_name, key, default)
module_lookup(conf, module_name, key, dflt) ==
    IF module_name \in DOMAIN conf /\ key \in DOMAIN conf[module_name].attrs
    THEN conf[module_name].attrs[key]
    ELSE dflt

\* IR.get_tls_context(name): the context as a set of at most one
get_tls_context(reg, name) == IF name \in DOMAIN reg THEN {reg[name]} ELSE {}

\* IREnvoyTLS(...) registers itself under its name; an entry already there stays
save_tls_context(reg, ctx) == reg @@ (ctx.name :> ctx)

\* IRResource.sourced_by / referenced_by
sourced_by(n, other) == [n EXCEPT !.sourced_by = @ \cup {other.rkey}]

referenced_by(n, other) == [n EXCEPT !.referenced_by = @ \cup {other.rkey}]

(***************************************************************************)
(* IRAmbassador.__init__                                                   *)
(***************************************************************************)
InitHeap ==
    ( "init.liveness_probe"  :> ("enabled" :> TRUE) ) @@
    ( "init.readiness_probe" :> ("enabled" :> TRUE) ) @@
    ( "init.diagnostics"     :> ("enabled" :> TRUE) )

IRAmbassador_init(kwargs) ==
    [ rkey |-> "ir.ambassador", kind |-> "IRAmbassador", name |-> "ir.ambassador",
      location |-> "--internal--",
      sourced_by |-> {}, referenced_by |-> {},
      attrs |->
        ( "service_port" :> 80 ) @@
        ( "admin_port" :> 8001 ) @@
        ( "diag_port" :> 8877 ) @@
        ( "auth_enabled" :> "None" ) @@
        ( "liveness_probe" :> "init.liveness_probe" ) @@
        ( "readiness_probe" :> "init.readiness_probe" ) @@
        ( "diagnostics" :> "init.diagnostics" ) @@
        ( "use_proxy_proto" :> FALSE ) @@
        ( "x_forwarded_proto_redirect" :> FALSE ) @@
        kwargs ]

(***************************************************************************)
(* IRAmbassador.setup, piece by piece.                                     *)
(***************************************************************************)
\* lines 61-67: tmod = amod.get('tls', None) when there is a module
EmbeddedTLS(conf) ==
    IF "ambassador" \in DOMAIN conf /\ "tls" \in DOMAIN conf["ambassador"].attrs
    THEN conf["ambassador"].attrs["tls"]
    ELSE "None"

\* `if tmod:` for a reference to a TLS block
TruthyBlock(h, ref) == ref # "None" /\ Len(h[ref]) > 0

\* lines 69-74: provenance written onto the embedded block, in place
AdoptEmbedded(h, conf) ==
    LET ref == EmbeddedTLS(conf)
        amod == conf["ambassador"]
    IN  IF TruthyBlock(h, ref)
        THEN [h EXCEPT ![ref] =
                SetItem(SetItem(SetItem(SetItem(@,
                    "rkey", amod.rkey),
                    "location", amod.location),
                    "kind", "Module"),
                    "name", "tls-from-ambassador-module")]
        ELSE h

\* variant: the standalone tls_module is consulted first
SelectTLS_tlsModuleFirst(h, conf, n) ==
    LET ref == EmbeddedTLS(conf)
        own == Get(n.attrs, "tls_module", "None")
    IN  IF TruthyBlock(h, own) THEN own
        ELSE IF TruthyBlock(h, ref) THEN ref
        ELSE own

\* lines 61-78: the value of `tmod` after the fallback to self.get("tls_module")
SelectTLS(h, conf, n) ==
    LET ref == EmbeddedTLS(conf)
    IN  IF TruthyBlock(h, ref) THEN ref
        ELSE Get(n.attrs, "tls_module", "None")

\* lines 84-91: the loop over tmod.items().  Evaluating `amod.location` with
\* amod = None raises AttributeError; passing location= together with a ctx
\* that has its own 'location' key raises TypeError.  Either ends setup.
RECURSIVE CreateContexts(_, _, _, _, _)
CreateContexts(blk, ref, conf, i, acc) ==
    IF i > Len(blk) THEN [fault |-> FALSE, made |-> acc]
    ELSE LET e == blk[i]
         IN  IF StartsWithUnderscore(e.name)
             THEN CreateContexts(blk, ref, conf, i + 1, acc)
             ELSE IF ~ e.value.isdict
             THEN CreateContexts(blk, ref, conf, i + 1, acc)
             ELSE IF get_module(conf, "ambassador") = {}
             THEN [fault |-> TRUE, made |-> acc]
             ELSE IF e.value.location # {}
             THEN [fault |-> TRUE, made |-> acc]
             ELSE CreateContexts(blk, ref, conf, i + 1,
                      Append(acc, [name |-> e.name,
                                   location |-> conf["ambassador"].location,
                                   from |-> ref]))

RECURSIVE RegisterAll(_, _, _)
RegisterAll(reg, made, i) ==
    IF i > Len(made) THEN reg
    ELSE RegisterAll(save_tls_context(reg, made[i]), made, i + 1)

\* variant: the port is switched only when there is no server context
ForcePort_inverted(attrs, reg) ==
    IF get_tls_context(reg, "server") = {}
    THEN [attrs EXCEPT !["service_port"] = 443]
    ELSE attrs

\* lines 94-99: server-side TLS switches the port
ForcePort(attrs, reg) ==
    IF get_tls_context(reg, "server") # {}
    THEN [attrs EXCEPT !["service_port"] = 443]
    ELSE attrs

\* variant: a port forced to 443 by TLS is not overridden
ApplyOverrides_keepForcedPort(attrs, conf) ==
    IF get_module(conf, "ambassador") = {} THEN attrs
    ELSE LET amod == conf["ambassador"]
             defined == (OverrideKeySet \cap DOMAIN amod.attrs)
                          \ (IF attrs["service_port"] = 443 THEN {"service_port"} ELSE {})
         IN  [k \in DOMAIN attrs \cup defined |->
                 IF k \in defined THEN amod.attrs[k] ELSE attrs[k]]

\* lines 109-114: the module's values override the defaults
ApplyOverrides(attrs, conf) ==
    IF get_module(conf, "ambassador") = {} THEN attrs
    ELSE LET amod == conf["ambassador"]
             defined == OverrideKeySet \cap DOMAIN amod.attrs
         IN  [k \in DOMAIN attrs \cup defined |->
                 IF k \in defined THEN amod.attrs[k] ELSE attrs[k]]

\* variant: the diagnostic target ignores the Config Store lookup
DiagService_fixedPort(conf) ==
    "127.0.0.1:" \o ToString(8877)

\* lines 117-118
DiagService(conf) ==
    "127.0.0.1:" \o ToString(module_lookup(conf, "ambassador", "diag_port", 8877))

\* variant: the defaults are written whether or not the field is set
DefaultProbe_overwrite(cur, dflt, diag_service) ==
    IF ProbeEnabled(cur)
    THEN ("prefix" :> dflt.prefix) @@ ("rewrite" :> dflt.rewrite) @@
         ("service" :> diag_service) @@ cur
    ELSE cur

\* lines 125-133 for one bundle
DefaultProbe(cur, dflt, diag_service) ==
    IF ProbeEnabled(cur)
    THEN LET c1 == IF FalsyField(cur, "prefix")
                   THEN ("prefix" :> dflt.prefix) @@ cur ELSE cur
             c2 == IF FalsyField(c1, "rewrite")
                   THEN ("rewrite" :> dflt.rewrite) @@ c1 ELSE c1
             c3 == IF FalsyField(c2, "service")
                   THEN ("service" :> diag_service) @@ c2 ELSE c2
         IN  c3
    ELSE cur

\* lines 120-133: the three bundles in order, each updated in place
DefaultProbes(h, attrs, diag_service) ==
    LET h1 == [h EXCEPT ![attrs["liveness_probe"]] =
                   DefaultProbe(@, default_liveness_probe, diag_service)]
        h2 == [h1 EXCEPT ![attrs["readiness_probe"]] =
                   DefaultProbe(@, default_readiness_probe, diag_service)]
        h3 == [h2 EXCEPT ![attrs["diagnostics"]] =
                   DefaultProbe(@, default_diagnostics, diag_service)]
    IN  h3

\* IRAmbassador.setup as a whole
setup ==
    /\ pc = "constructed"
    /\ LET amods == get_module(aconf, "ambassador")
           n1 == IF amods # {}
                 THEN referenced_by(sourced_by(node, aconf["ambassador"]),
                                    aconf["ambassador"])
                 ELSE node
           h1 == IF amods # {} THEN AdoptEmbedded(heap, aconf) ELSE heap
           t == SelectTLS(heap, aconf, node)
           res == IF TruthyBlock(h1, t)
                  THEN CreateContexts(h1[t], t, aconf, 1, <<>>)
                  ELSE [fault |-> FALSE, made |-> <<>>]
           reg == RegisterAll(tls_contexts, res.made, 1)
           a1 == ForcePort(n1.attrs, reg)
           a2 == ApplyOverrides(a1, aconf)
           h2 == DefaultProbes(h1, a2, DiagService(aconf))
       IN  /\ tmod' = t
           /\ created' = res.made
           /\ tls_contexts' = reg
           /\ IF res.fault
              THEN /\ pc' = "setup_failed"
                   /\ node' = n1
                   /\ heap' = h1
              ELSE /\ pc' = "setup_done"
                   /\ node' = [n1 EXCEPT !.attrs = a2]
                   /\ heap' = h2
    /\ UNCHANGED <<aconf, mappings>>

(***************************************************************************)
(* IRAmbassador.add_mappings                                               *)
(***************************************************************************)
\* variant: a bundle is mapped whenever it is non-empty, enabled or not
ProbeMapping_ignoreEnabled(n, h, name, key) ==
    LET cur == h[n.attrs[key]]
    IN  IF DOMAIN cur # {}
        THEN << [name |-> "internal_" \o name \o "_probe_mapping",
                 rkey |-> n.rkey, location |-> n.location,
                 referenced_by |-> {n.rkey},
                 fields |-> cur] >>
        ELSE << >>

\* lines 143-148 for one bundle: the mappings it hands to ir.add_mapping
ProbeMapping(n, h, name, key) ==
    LET cur == h[n.attrs[key]]
    IN  IF ProbeEnabled(cur)
        THEN << [name |-> "internal_" \o name \o "_probe_mapping",
                 rkey |-> n.rkey, location |-> n.location,
                 referenced_by |-> {n.rkey},
                 fields |-> cur] >>
        ELSE << >>

add_mappings ==
    /\ pc = "setup_done"
    /\ mappings' = mappings \o ProbeMapping(node, heap, "liveness", "liveness_probe")
                            \o ProbeMapping(node, heap, "readiness", "readiness_probe")
                            \o ProbeMapping(node, heap, "diagnostics", "diagnostics")
    /\ pc' = "mappings_done"
    /\ UNCHANGED <<aconf, heap, node, tmod, tls_contexts, created>>

(***************************************************************************)
(* Inputs: what the Config Store, the node's kwargs and the TLS registry   *)
(* hold when the node is constructed.                                      *)
(***************************************************************************)
ProbeInputs ==
    { ("enabled" :> TRUE),
      ("enabled" :> FALSE) @@ ("prefix" :> "/user/p"),
      ("prefix" :> "/user/p") @@ ("service" :> "user:1"),
      ("enabled" :> TRUE) @@ ("prefix" :> "") @@ ("rewrite" :> "/user/r") @@ ("service" :> "user:1"),
      ("enabled" :> TRUE) @@ ("prefix" :> "/user/p") @@ ("rewrite" :> "") @@ ("service" :> "") }

ScalarInput(key) ==
    CASE key = "service_port" -> 8080
      [] key = "admin_port" -> 9001
      [] key = "diag_port" -> 9999
      [] key = "auth_enabled" -> "False"
      [] OTHER -> TRUE

TLSDict == [isdict |-> TRUE, location |-> {}, text |-> ""]

TLSDictWithLocation == [isdict |-> TRUE, location |-> {"tls.yaml.1"}, text |-> ""]

TLSString == [isdict |-> FALSE, location |-> {}, text |-> "bogus"]

TLSEntries ==
    { [name |-> "server", value |-> TLSDict],
      [name |-> "server", value |-> TLSDictWithLocation],
      [name |-> "server", value |-> TLSString],
      [name |-> "_ambassador_meta", value |-> TLSDict] }

TLSBlocks ==
    { b \in UNION { [1..len -> TLSEntries] : len \in 0..MaxEntries } :
        \A i, j \in 1..Len(b) : i # j => b[i].name # b[j].name }

\* a TLS block that may be missing: a set of at most one block
TLSInputs == { {} } \cup { {b} : b \in TLSBlocks }

ModuleKeySets == { K \in SUBSET OverrideKeySet : Cardinality(K) <= MaxKeys }

ModuleAttrs(K, emb) ==
    [k \in K \cup (IF emb = {} THEN {} ELSE {"tls"}) |->
        IF k = "tls" THEN "amod.tls"
        ELSE IF k \in ProbeKeys THEN "amod." \o k
        ELSE ScalarInput(k)]

ModuleHeap(pin, emb) ==
    [r \in {"amod." \o k : k \in DOMAIN pin} \cup (IF emb = {} THEN {} ELSE {"amod.tls"}) |->
        IF r = "amod.tls" THEN CHOOSE b \in emb : TRUE
        ELSE pin[CHOOSE k \in DOMAIN pin : r = "amod." \o k]]

Start(conf, modheap, tm, earlier) ==
    /\ pc = "constructed"
    /\ aconf = conf
    /\ heap = InitHeap @@ modheap @@
              (IF tm = {} THEN <<>> ELSE ("node.tls_module" :> CHOOSE b \in tm : TRUE))
    /\ node = IRAmbassador_init(IF tm = {} THEN <<>> ELSE ("tls_module" :> "node.tls_module"))
    /\ tmod = "None"
    /\ tls_contexts = IF earlier
                      THEN ("server" :> [name |-> "server", location |-> "other.yaml.1",
                                         from |-> "other"])
                      ELSE <<>>
    /\ created = <<>>
    /\ mappings = <<>>

InitNoModule ==
    \E tm \in TLSInputs, earlier \in BOOLEAN :
        Start(<<>>, <<>>, tm, earlier)

InitModule ==
    \E K \in ModuleKeySets, emb \in TLSInputs, tm \in TLSInputs, earlier \in BOOLEAN :
        \E pin \in [K \cap ProbeKeys -> ProbeInputs] :
            Start("ambassador" :> [rkey |-> "ambassador.yaml.1",
                                   location |-> "ambassador.yaml.1",
                                   kind |-> "Module", name |-> "ambassador",
                                   attrs |-> ModuleAttrs(K, emb)],
                  ModuleHeap(pin, emb), tm, earlier)

Init == InitNoModule \/ InitModule

Next == setup \/ add_mappings

Spec == Init /\ [][Next]_vars

(***************************************************************************)
(* Vocabulary of the properties.                                           *)
(***************************************************************************)
HasAmod == "ambassador" \in DOMAIN aconf

\* the ambassador module defines `key`
Defined(key) == HasAmod /\ key \in DOMAIN aconf["ambassador"].attrs

\* the step on which setup runs, and the one on which it returns True
SetupRuns == pc = "constructed" /\ pc' # "constructed"

SetupReturns == pc = "constructed" /\ pc' = "setup_done"

SetupDone == pc \in {"setup_done", "mappings_done"}

\* a value as the user sees it: a probe bundle by its contents
Contents(h, key, v) == IF key \in ProbeKeys THEN h[v] ELSE v

\* the enable flag of a bundle is present and true
FlagTrue(cur) == "enabled" \in DOMAIN cur /\ cur["enabled"] = TRUE

\* the objects the Config Store holds, by contents
ConfigContents ==
    [ modules |-> aconf,
      objects |-> [r \in {x \in DOMAIN heap : SubSeq(x, 1, 5) = "amod."} |-> heap[r]] ]

(***************************************************************************)
(* C1                                                                      *)
(***************************************************************************)
\* C1 (as stated): when setup returns, for every override-eligible key the
\* module defines, the node's attribute equals the value the module supplied,
\* probe bundles included.
C1_OverrideWins ==
    [][SetupReturns =>
        \A key \in OverrideKeySet :
            Defined(key) =>
                /\ key \in DOMAIN node'.attrs
                /\ Contents(heap', key, node'.attrs[key])
                     = Contents(heap, key, aconf["ambassador"].attrs[key])]_vars

\* C1 (amended): when setup returns, for every override-eligible key the
\* module defines, the node's attribute is the module's value; for a scalar key
\* that is the value supplied, for a probe bundle it is the module's own
\* bundle, unchanged when the bundle is not enabled and otherwise keeping
\* every field supplied with a non-empty value.
C1_OverrideWinsAmended ==
    [][SetupReturns =>
        \A key \in OverrideKeySet :
            Defined(key) =>
                /\ key \in DOMAIN node'.attrs
                /\ node'.attrs[key] = aconf["ambassador"].attrs[key]
                /\ key \in ProbeKeys =>
                     LET old == heap[aconf["ambassador"].attrs[key]]
                         new == heap'[node'.attrs[key]]
                     IN  /\ ~ FlagTrue(old) => new = old
                         /\ \A f \in DOMAIN old :
                               \/ f \in ProbeFields /\ old[f] = ""
                               \/ f \in DOMAIN new /\ new[f] = old[f]]_vars

\* C1 witness: TLS forced the port, the module's port and bundle won
C1_Witness ==
    /\ pc = "setup_done"
    /\ Defined("service_port") /\ Defined("liveness_probe")
    /\ "server" \in DOMAIN tls_contexts
    /\ node.attrs["service_port"] = 8080
    /\ node.attrs["liveness_probe"] = "amod.liveness_probe"
    /\ "rewrite" \in DOMAIN heap["amod.liveness_probe"]

(***************************************************************************)
(* C2                                                                      *)
(***************************************************************************)
\* C2: when the module does not define service_port, after setup the node's
\* service_port is 443 if a "server" TLS context is registered and 80 otherwise.
C2_ResolvedServicePort ==
    (SetupDone /\ ~ Defined("service_port")) =>
        node.attrs["service_port"] =
            IF "server" \in DOMAIN tls_contexts THEN 443 ELSE 80

\* C2 witness: the server context made by this node's own setup switched the port
C2_Witness ==
    /\ pc = "setup_done"
    /\ ~ Defined("service_port")
    /\ \E i \in 1..Len(created) : created[i].name = "server"
    /\ tls_contexts["server"].from # "other"
    /\ node.attrs["service_port"] = 443

(***************************************************************************)
(* C3                                                                      *)
(***************************************************************************)
\* C3 (as stated): in an enabled bundle every prefix, rewrite or service the
\* user supplied, an empty string included, still holds the user's value
\* when setup returns.
C3_NonDestructive ==
    [][SetupReturns =>
        \A key \in ProbeKeys :
            LET old == heap[node'.attrs[key]]
                new == heap'[node'.attrs[key]]
            IN  FlagTrue(new) =>
                    \A f \in ProbeFields \cap DOMAIN old : new[f] = old[f]]_vars

\* C3 (amended): in an enabled bundle every prefix, rewrite or service the
\* user supplied with a non-empty value still holds that value when setup
\* returns; a default is written only into a field that was absent or empty.
C3_NonDestructiveNonEmpty ==
    [][SetupReturns =>
        \A key \in ProbeKeys :
            LET old == heap[node'.attrs[key]]
                new == heap'[node'.attrs[key]]
            IN  FlagTrue(new) =>
                    \A f \in ProbeFields :
                        /\ f \in DOMAIN new
                        /\ (f \in DOMAIN old /\ old[f] # "") => new[f] = old[f]
                        /\ (f \in DOMAIN old /\ new[f] # old[f]) => old[f] = ""]_vars

\* C3 witness: a user prefix kept next to a defaulted rewrite and service
C3_Witness ==
    /\ pc = "setup_done"
    /\ Defined("readiness_probe")
    /\ node.attrs["readiness_probe"] = "amod.readiness_probe"
    /\ FlagTrue(heap["amod.readiness_probe"])
    /\ heap["amod.readiness_probe"]["prefix"] = "/user/p"
    /\ heap["amod.readiness_probe"]["rewrite"] = "/ambassador/v0/check_ready"

(***************************************************************************)
(* C4                                                                      *)
(***************************************************************************)
\* C4: when setup returns, the service synthesized for the diagnostics bundle,
\* and the one filled into a liveness or readiness bundle that had none, is
\* "127.0.0.1:" followed by the ambassador module's diag_port, or by 8877 when
\* the module or the key is missing.
C4_DiagIndependence ==
    [][SetupReturns =>
        LET port == IF Defined("diag_port")
                    THEN aconf["ambassador"].attrs["diag_port"] ELSE 8877
            target == "127.0.0.1:" \o ToString(port)
        IN  \A key \in ProbeKeys :
                LET old == heap[node'.attrs[key]]
                    new == heap'[node'.attrs[key]]
                IN  (FlagTrue(new) /\ FalsyField(old, "service")) =>
                        ("service" \in DOMAIN new /\ new["service"] = target)]_vars

\* C4 witness: diag_port overridden and the diagnostics service follows the lookup
C4_Witness ==
    /\ pc = "setup_done"
    /\ Defined("diag_port")
    /\ node.attrs["diag_port"] = 9999
    /\ heap[node.attrs["diagnostics"]] =
          [enabled |-> TRUE, prefix |-> "/ambassador/v0/",
           rewrite |-> "/ambassador/v0/", service |-> "127.0.0.1:9999"]

(***************************************************************************)
(* C5                                                                      *)
(***************************************************************************)
\* C5: one call of add_mappings registers exactly one mapping, named
\* internal_<name>_probe_mapping, for each bundle whose enable flag is true and
\* none for any other bundle.
C5_MappingCount ==
    [][(pc = "setup_done" /\ pc' = "mappings_done") =>
        LET added == SubSeq(mappings', Len(mappings) + 1, Len(mappings'))
            Count(nm) == Cardinality({i \in 1..Len(added) : added[i].name = nm})
            Want(key) == IF FlagTrue(heap[node.attrs[key]]) THEN 1 ELSE 0
        IN  /\ SubSeq(mappings', 1, Len(mappings)) = mappings
            /\ Count("internal_liveness_probe_mapping") = Want("liveness_probe")
            /\ Count("internal_readiness_probe_mapping") = Want("readiness_probe")
            /\ Count("internal_diagnostics_probe_mapping") = Want("diagnostics")
            /\ Len(added) = Want("liveness_probe") + Want("readiness_probe")
                              + Want("diagnostics")]_vars

\* C5 witness: two bundles mapped, the one the module switched off not mapped
C5_Witness ==
    /\ pc = "mappings_done"
    /\ Defined("liveness_probe")
    /\ "enabled" \in DOMAIN heap["amod.liveness_probe"]
    /\ ~ heap["amod.liveness_probe"]["enabled"]
    /\ Len(mappings) = 2
    /\ mappings[1].name = "internal_readiness_probe_mapping"
    /\ mappings[2].name = "internal_diagnostics_probe_mapping"

(***************************************************************************)
(* C6                                                                      *)
(***************************************************************************)
\* C6: for every entry of the effective TLS configuration, setup creates a TLS
\* context under the entry's name if and only if the name does not begin with
\* '_' and the value is a structured block.
C6_ContextFilter ==
    [][SetupRuns =>
        (TruthyBlock(heap', tmod') =>
            \A i \in 1..Len(heap'[tmod']) :
                LET e == heap'[tmod'][i]
                IN  (\E j \in 1..Len(created') : created'[j].name = e.name)
                    <=> (~ StartsWithUnderscore(e.name) /\ e.value.isdict))]_vars

(***************************************************************************)
(* C7                                                                      *)
(***************************************************************************)
\* C7: whatever optional data is missing, setup runs to completion and
\* returns success.
C7_NeverFaults == pc # "setup_failed"

(***************************************************************************)
(* C8                                                                      *)
(***************************************************************************)
\* C8: when setup has returned, every proxy-global attribute of the node has a
\* value and every enabled bundle has prefix, rewrite and service.
C8_FullyResolved ==
    SetupDone =>
        /\ OverrideKeySet \subseteq DOMAIN node.attrs
        /\ \A key \in ProbeKeys :
              FlagTrue(heap[node.attrs[key]]) =>
                  ProbeFields \subseteq DOMAIN heap[node.attrs[key]]

(***************************************************************************)
(* C9                                                                      *)
(***************************************************************************)
\* C9: no step of setup or add_mappings changes the contents of the resources
\* the Config Store holds.
C9_ConfigReadOnly == [][ConfigContents' = ConfigContents]_vars

(***************************************************************************)
(* C10                                                                     *)
(***************************************************************************)
\* C10 (as stated): whenever the module carries a tls block, whatever its
\* contents, the node's tls_module is not the effective TLS configuration and
\* no TLS context comes from it.
C10_TLSPrecedence ==
    [][SetupRuns =>
        /\ tmod' = "amod.tls" => Defined("tls")
        /\ Defined("tls") =>
              /\ tmod' # "node.tls_module"
              /\ \A j \in 1..Len(created') : created'[j].from = "amod.tls"]_vars

\* C10 (amended): the effective TLS configuration is the embedded block
\* whenever the module carries one with at least one entry, and otherwise the
\* node's tls_module attribute if there is one; TLS contexts are created from
\* entries of the effective configuration only.
C10_TLSPrecedenceNonEmpty ==
    [][SetupRuns =>
        /\ (tmod' = "amod.tls") <=> (Defined("tls") /\ Len(heap["amod.tls"]) > 0)
        /\ tmod' # "amod.tls" =>
              tmod' = (IF "tls_module" \in DOMAIN node.attrs
                       THEN node.attrs["tls_module"] ELSE "None")
        /\ \A j \in 1..Len(created') : created'[j].from = tmod']_vars

\* C10 witness: both blocks have entries and the context comes from the embedded one
C10_Witness ==
    /\ pc = "setup_done"
    /\ Defined("tls")
    /\ "tls_module" \in DOMAIN node.attrs
    /\ Len(heap["node.tls_module"]) > 0
    /\ heap["node.tls_module"][1].value.isdict
    /\ ~ StartsWithUnderscore(heap["node.tls_module"][1].name)
    /\ tmod = "amod.tls"
    /\ Len(created) = 1
    /\ created[1].from = "amod.tls"

====
